---- MODULE Spec2Model ----
(***************************************************************************)
(* A model of the cross-frame state of egui's ScrollArea                   *)
(* (egui/src/containers/scroll_area.rs), Grid (egui/src/grid.rs) and the   *)
(* hashed TypeId of the any-maps (egui/src/any).                           *)
(*                                                                         *)
(* Numbers.  f32 lengths are integers in pixels.  Time is counted in units *)
(* of 1/DtPerSec second, a velocity is in pixels per second, a ratio in    *)
(* [0, 1] is a numerator over RatioDen or AnimDen.  On the input sets below *)
(* the divisions of the kinetic step, of the scroll target and of the      *)
(* handle drag are exact; Remap and the half height of the handle round    *)
(* down where the f32 of the code keeps a fraction of a pixel.             *)
(***************************************************************************)
EXTENDS Integers, Sequences, FiniteSets, TLC

VARIABLES
    scroll_areas,   \* Memory::scroll_areas : Id -> State (a partial map)
    scroll_target,  \* FrameState's scroll target: None or [y, center_ratio]
    stack,          \* the Prepared of every ScrollArea::show that has begun and not ended
    in_frame,       \* TRUE between the frame driver's begin_frame and end_frame
    shown,          \* the ids of the regions begun in this frame (an id is used once a frame)
    last,           \* what the most recent Prepared::end read and computed (observation only)
    kin,            \* history per region: friction budget of the current run of undragged frames
    hist,           \* history of the scroll target slot in this frame
    id_data,        \* Memory::id_data : Id -> grid State (a partial map)
    grid,           \* the GridLayout of the Grid::show that is running, or None
    painter,        \* the background fills of the grids painted in this frame, in order
    glast,          \* what the most recent GridLayout::save read and did (observation only)
    filled,         \* history per grid: the cells of the frame of its most recent save
    hasher,         \* what hashing std::any::TypeId::of::<T>() gives in this run, per type
    by_type,        \* the by-type store: TypeId -> element (a partial map)
    panicked,       \* TRUE once an access of the by-type store has panicked
    ser_store,      \* the serializable by-instance store: Id -> element (a partial map)
    expect,         \* per type, the value last written through a reference to it (-1: none yet)
    slast           \* the most recent operation on the by-type store (observation only)

scroll_vars == <<scroll_areas, scroll_target, stack, in_frame, shown, last, kin, hist>>

grid_vars == <<id_data, grid, painter, glast, filled>>

store_vars == <<hasher, by_type, ser_store, panicked, expect, slast>>

vars == <<scroll_vars, grid_vars, store_vars>>

\* Option::None; a Some(..) is a record with some |-> TRUE
None == [some |-> FALSE]

Max(a, b) == IF a >= b THEN a ELSE b

Min(a, b) == IF a <= b THEN a ELSE b

Abs(a) == IF a >= 0 THEN a ELSE -a

(***************************************************************************)
(* Vec2                                                                    *)
(***************************************************************************)
Vec2(x, y) == [x |-> x, y |-> y]

Vec2Zero == Vec2(0, 0)

RECURSIVE SqrtBetween(_, _, _)
\* The greatest r in lo..hi with r * r <= n, by bisection.
SqrtBetween(lo, hi, n) ==
    IF lo >= hi THEN lo
    ELSE LET mid == (lo + hi + 1) \div 2
         IN  IF mid * mid <= n THEN SqrtBetween(mid, hi, n)
             ELSE SqrtBetween(lo, mid - 1, n)

\* Vec2::length
Length(v) == SqrtBetween(0, Abs(v.x) + Abs(v.y), v.x * v.x + v.y * v.y)

(***************************************************************************)
(* Scales and the constants of Prepared::end                               *)
(***************************************************************************)
DtPerSec == 2

RatioDen == 2

AnimDen == 2

stop_speed == 20

friction_coeff == 1000

item_spacing_x == 8

\* max_scroll_bar_width_with_margin
MaxScrollBarWidth == item_spacing_x + 16

(***************************************************************************)
(* Bounds and input sets                                                   *)
(***************************************************************************)
MaxDt == 1

ScrollIds == {"a"}

NestedIds == {"a", "b"}

GridIds == {"g"}

InnerTops == {0}

InnerHeights == {200}

ClipHeights == {200}

ContentHeights == {500}

AnimValues == 0 .. AnimDen

ScrollTargets ==
    { [some |-> TRUE, y |-> 400, center_ratio |-> 1],
      [some |-> TRUE, y |-> 100, center_ratio |-> 0] }

\* mouse.pos: None, or a height and whether its x lies in the scroll bar's column
MousePositions ==
    {None} \cup { [some |-> TRUE, y |-> y, in_bar_x |-> TRUE] : y \in {40, 160} }
           \cup { [some |-> TRUE, y |-> 40, in_bar_x |-> FALSE] }

\* What one Prepared::end may read: mouse.delta.y, mouse.velocity, unstable_dt,
\* scroll_delta.y, mouse.pos, animate_bool(id, true), and the answers of
\* ui.interact (content dragged, scroll bar active) and ui.contains_mouse.
KineticInputs ==
    [ always      |-> BOOLEAN,
      begin_anims |-> {0, AnimDen},
      deltas      |-> {0, 50},
      velocities  |-> { Vec2Zero, Vec2(0, 10), Vec2(0, 200), Vec2(0, 1000),
                        Vec2(600, -800) },
      dts         |-> 0 .. MaxDt,
      drags       |-> BOOLEAN,
      hovers      |-> {FALSE},
      wheels      |-> {0},
      bar_actives |-> {FALSE},
      positions   |-> {None},
      anims       |-> {AnimDen} ]

WheelInputs ==
    [ always      |-> {FALSE},
      begin_anims |-> {AnimDen},
      deltas      |-> {0, 50},
      velocities  |-> { Vec2(0, 1000) },
      dts         |-> {1},
      drags       |-> BOOLEAN,
      hovers      |-> BOOLEAN,
      wheels      |-> {-50, 50},
      bar_actives |-> {FALSE},
      positions   |-> MousePositions,
      anims       |-> AnimValues ]

BarInputs ==
    [ always      |-> BOOLEAN,
      begin_anims |-> AnimValues,
      deltas      |-> {-50, 50},
      velocities  |-> { Vec2Zero },
      dts         |-> {1},
      drags       |-> {FALSE},
      hovers      |-> {FALSE},
      wheels      |-> {0},
      bar_actives |-> BOOLEAN,
      positions   |-> MousePositions,
      anims       |-> AnimValues ]

QuietInputs ==
    [ always      |-> {FALSE},
      begin_anims |-> {AnimDen},
      deltas      |-> {0},
      velocities  |-> { Vec2Zero },
      dts         |-> {1},
      drags       |-> {FALSE},
      hovers      |-> {FALSE},
      wheels      |-> {0},
      bar_actives |-> {FALSE},
      positions   |-> {None},
      anims       |-> {AnimDen} ]

(***************************************************************************)
(* State                                                                   *)
(***************************************************************************)
\* impl Default for State
DefaultState == [offset |-> Vec2Zero, show_scroll |-> FALSE, vel |-> Vec2Zero]

\* memory().scroll_areas.get(&id).cloned().unwrap_or_default()
\* A begin that starts every frame from the default state
LoadState_Default(id) == DefaultState

LoadState(id) ==
    IF id \in DOMAIN scroll_areas THEN scroll_areas[id] ELSE DefaultState

\* An insert that stores the state for every region known so far
InsertState_All(id, state) ==
    [i \in DOMAIN scroll_areas \cup {id} |-> state]

\* memory().scroll_areas.insert(id, state)
InsertState(id, state) ==
    [i \in DOMAIN scroll_areas \cup {id} |->
        IF i = id THEN state ELSE scroll_areas[i]]

NoEnd == [id |-> "none"]

\* History of a region's kinetic run: v0 is the speed stored by the last dragged
\* frame, budget is v0 minus the friction of the undragged frames since, -1 once
\* that friction has exceeded v0; all_small tells whether the content was taller
\* than the inner rectangle in every one of these frames.
\* No GridLayout::save has run since the last other step
NoSave == [id |-> "none"]

DefaultKin == [v0 |-> 0, budget |-> 0, all_small |-> TRUE]

\* History of the slot: the value last set in this frame, the pending value that
\* set replaced, and how many Prepared::end used the slot since.
NoHist == [set |-> None, overwritten |-> None, uses |-> 0]

ScrollInit ==
    /\ scroll_areas = << >>
    /\ scroll_target = None
    /\ stack = << >>
    /\ in_frame = FALSE
    /\ shown = {}
    /\ last = NoEnd
    /\ kin = [i \in NestedIds |-> DefaultKin]
    /\ hist = NoHist

GridInit ==
    /\ id_data = << >>
    /\ grid = None
    /\ painter = << >>
    /\ glast = NoSave
    /\ filled = [i \in GridIds |-> None]

(***************************************************************************)
(* emath::remap and emath::remap_clamp (linear maps between ranges)        *)
(***************************************************************************)
Remap(x, from_start, from_end, to_start, to_end) ==
    to_start + ((x - from_start) * (to_end - to_start)) \div (from_end - from_start)

RemapClamp(x, from_start, from_end, to_start, to_end) ==
    IF x <= from_start THEN to_start
    ELSE IF from_end <= x THEN to_end
    ELSE Remap(x, from_start, from_end, to_start, to_end)

(***************************************************************************)
(* The frame driver and the frame state                                    *)
(***************************************************************************)
\* A slot that keeps a pending value: the first value set wins
SetTargetSlot_FirstWins(slot, value) ==
    IF slot # None /\ value # None THEN slot ELSE value

\* FrameState::set_scroll_target: one slot, the new value replaces the old one
SetTargetSlot(slot, value) == value

\* The frame driver starts a frame: the frame state is reset.
BeginFrame ==
    /\ ~in_frame
    /\ in_frame' = TRUE
    /\ shown' = {}
    /\ scroll_target' = SetTargetSlot(scroll_target, None)
    /\ last' = NoEnd
    /\ hist' = NoHist
    /\ painter' = << >>
    /\ glast' = NoSave
    /\ UNCHANGED <<scroll_areas, stack, kin, id_data, grid, filled>>
    /\ UNCHANGED store_vars

\* The frame driver ends a frame; every show has returned.
EndFrame ==
    /\ in_frame
    /\ stack = << >>
    /\ grid = None
    /\ in_frame' = FALSE
    /\ shown' = {}
    /\ last' = NoEnd
    /\ hist' = NoHist
    /\ glast' = NoSave
    /\ UNCHANGED <<scroll_areas, scroll_target, stack, kin, id_data, grid, painter, filled>>
    /\ UNCHANGED store_vars

\* A widget asks to be scrolled to (Ui::scroll_to_cursor and the like).
SetScrollTarget(track) ==
    /\ in_frame
    /\ \E t \in ScrollTargets :
          /\ scroll_target' = SetTargetSlot(scroll_target, t)
          /\ hist' = IF track
                     THEN [set |-> t, overwritten |-> scroll_target, uses |-> 0]
                     ELSE hist
    /\ last' = NoEnd
    /\ UNCHANGED <<scroll_areas, stack, in_frame, shown, kin>>
    /\ UNCHANGED <<grid_vars, store_vars>>

(***************************************************************************)
(* ScrollArea::begin                                                       *)
(***************************************************************************)
\* The Prepared that begin returns.  t is what animate_bool(id, state.show_scroll)
\* returns; inner_top, inner_height and clip_height come from the surrounding Ui.
Begin(id, always_show_scroll, t, inner_top, inner_height, clip_height) ==
    LET state == LoadState(id)
        max_scroll_bar_width == MaxScrollBarWidth
        current_scroll_bar_width ==
            IF always_show_scroll THEN max_scroll_bar_width
            ELSE (max_scroll_bar_width * t) \div AnimDen
    IN  [ id                       |-> id,
          state                    |-> state,
          always_show_scroll       |-> always_show_scroll,
          current_scroll_bar_width |-> current_scroll_bar_width,
          inner_top                |-> inner_top,
          inner_height             |-> inner_height,
          \* content_ui starts at inner_rect.min - state.offset
          content_top              |-> inner_top - state.offset.y,
          clip_height              |-> clip_height,
          \* content_ui.min_size().y: nothing has been added yet
          content_height           |-> 0 ]

\* ScrollArea::show, up to the call of add_contents
ShowBegin(ids, I) ==
    /\ in_frame
    /\ \E id \in ids, always \in I.always, t \in I.begin_anims,
          inner_top \in InnerTops, inner_height \in InnerHeights,
          clip_height \in ClipHeights :
          /\ id \notin shown
          /\ shown' = shown \cup {id}
          /\ stack' = <<Begin(id, always, t, inner_top, inner_height, clip_height)>>
                        \o stack
    /\ last' = NoEnd
    /\ UNCHANGED <<scroll_areas, scroll_target, in_frame, kin, hist>>
    /\ UNCHANGED <<grid_vars, store_vars>>

\* add_contents puts widgets into the innermost content_ui: its min_size grows.
AddContents ==
    /\ stack # << >>
    /\ \E h \in ContentHeights :
          /\ h > stack[1].content_height
          /\ stack' = [stack EXCEPT ![1].content_height = h]
    /\ last' = NoEnd
    /\ UNCHANGED <<scroll_areas, scroll_target, in_frame, shown, kin, hist>>
    /\ UNCHANGED <<grid_vars, store_vars>>

(***************************************************************************)
(* Prepared::end, step by step.  Every step returns the set of its         *)
(* outcomes over the inputs it reads (ui.interact, ui.input, animate_bool).*)
(***************************************************************************)
\* A target step that ignores center_ratio: the target is put at the top
TargetStep_NoCenter(p, tgt) ==
    IF tgt # None
    THEN [off |-> tgt.y - p.content_top, target |-> SetTargetSlot(tgt, None)]
    ELSE [off |-> p.state.offset.y, target |-> tgt]

\* A target step that leaves the target pending
TargetStep_NoClear(p, tgt) ==
    IF tgt # None
    THEN [off |-> tgt.y - p.content_top - (p.clip_height * tgt.center_ratio) \div RatioDen,
          target |-> tgt]
    ELSE [off |-> p.state.offset.y, target |-> tgt]

\* The scroll target, if any, sets offset.y and is consumed.
TargetStep(p, tgt) ==
    IF tgt # None
    THEN LET center_ratio == tgt.center_ratio
             height_offset == (p.clip_height * center_ratio) \div RatioDen
             top == p.content_top
         IN  [off |-> tgt.y - top - height_offset, target |-> SetTargetSlot(tgt, None)]
    ELSE [off |-> p.state.offset.y, target |-> tgt]

\* friction * vel.normalized()
FrictionVec(friction, vel) ==
    LET len == Length(vel)
    IN  Vec2((friction * vel.x) \div len, (friction * vel.y) \div len)

\* The friction of one frame of dt
Friction(dt) == (friction_coeff * dt) \div DtPerSec

\* A kinetic step that stops only below stop_speed, never because of the friction
KineticStep_NoFrictionStop(off, vel, dt) ==
    LET friction == Friction(dt)
    IN  IF Length(vel) < stop_speed
        THEN [off |-> off, vel |-> Vec2Zero, repaint |-> FALSE, active |-> FALSE]
        ELSE LET d == FrictionVec(friction, vel)
                 v == Vec2(vel.x - d.x, vel.y - d.y)
             IN  [off |-> off - (v.y * dt) \div DtPerSec, vel |-> v,
                  repaint |-> TRUE, active |-> FALSE]

\* A kinetic step that moves the region and asks for no further frame
KineticStep_NoRepaint(off, vel, dt) ==
    LET friction == Friction(dt)
    IN  IF friction > Length(vel) \/ Length(vel) < stop_speed
        THEN [off |-> off, vel |-> Vec2Zero, repaint |-> FALSE, active |-> FALSE]
        ELSE LET d == FrictionVec(friction, vel)
                 v == Vec2(vel.x - d.x, vel.y - d.y)
             IN  [off |-> off - (v.y * dt) \div DtPerSec, vel |-> v,
                  repaint |-> FALSE, active |-> FALSE]

\* Kinetic scrolling of a region that is not dragged
KineticStep(off, vel, dt) ==
    LET friction == Friction(dt)
    IN  IF friction > Length(vel) \/ Length(vel) < stop_speed
        THEN [off |-> off, vel |-> Vec2Zero, repaint |-> FALSE, active |-> FALSE]
        ELSE LET d == FrictionVec(friction, vel)
                 v == Vec2(vel.x - d.x, vel.y - d.y)
             IN  [off |-> off - (v.y * dt) \div DtPerSec, vel |-> v,
                  repaint |-> TRUE, active |-> FALSE]

\* A drag that moves the offset and stops the kinetic scrolling
DragStep_NoVelocity(off, delta_y, velocity) ==
    [off |-> off - delta_y, vel |-> Vec2Zero, repaint |-> FALSE, active |-> TRUE]

\* A drag that takes the pointer's velocity and leaves the offset
DragStep_Still(off, delta_y, velocity) ==
    [off |-> off, vel |-> velocity, repaint |-> FALSE, active |-> TRUE]

\* Dragging the content sets the offset and the velocity from the pointer
DragStep(off, delta_y, velocity) ==
    [off |-> off - delta_y, vel |-> velocity, repaint |-> FALSE, active |-> TRUE]

\* A drag and kinetic step that runs whether or not the content is too tall
DragOrKinetic_Ungated(p, off, content_is_too_small, I, delta_y, velocity, dt) ==
    { IF active THEN DragStep(off, delta_y, velocity)
      ELSE KineticStep(off, p.state.vel, dt) : active \in I.drags }

\* if content_is_too_small { ... }: content_response.active is read
DragOrKinetic(p, off, content_is_too_small, I, delta_y, velocity, dt) ==
    IF content_is_too_small
    THEN { IF active THEN DragStep(off, delta_y, velocity)
           ELSE KineticStep(off, p.state.vel, dt) : active \in I.drags }
    ELSE { [off |-> off, vel |-> p.state.vel, repaint |-> FALSE, active |-> FALSE] }

\* A wheel step with the sign of the delta reversed
WheelStep_Added(off, hovered, scroll_delta_y) ==
    IF hovered THEN off + scroll_delta_y ELSE off

\* if ui.contains_mouse(outer_rect) { state.offset.y -= scroll_delta.y }
WheelStep(off, hovered, scroll_delta_y) ==
    IF hovered THEN off - scroll_delta_y ELSE off

WheelOutcomes(off, I) ==
    { [off |-> WheelStep(off, FALSE, 0), hovered |-> FALSE, wheel |-> 0] :
        h \in I.hovers \ {TRUE} }
        \cup { [off |-> WheelStep(off, TRUE, w), hovered |-> TRUE, wheel |-> w] :
                 w \in IF TRUE \in I.hovers /\ I.positions # {None} THEN I.wheels ELSE {} }

\* content_is_too_small || always_show_scroll, without always_show_scroll
ShowScrollThisFrame_TooSmallOnly(content_is_too_small, always_show_scroll) ==
    content_is_too_small

\* let show_scroll_this_frame = content_is_too_small || always_show_scroll
ShowScrollThisFrame(content_is_too_small, always_show_scroll) ==
    content_is_too_small \/ always_show_scroll

\* A cold start that takes the whole width whatever animate_bool returns
ColdStart_Forced(p, show_scroll_this_frame, anims) ==
    IF show_scroll_this_frame /\ p.current_scroll_bar_width <= 0
    THEN { [width |-> MaxScrollBarWidth, anim |-> t] : t \in anims }
    ELSE { [width |-> p.current_scroll_bar_width, anim |-> -1] }

\* The width of the scroll bar after the cold-start rule, and what
\* animate_bool(id, true) returned if the rule called it (-1: it did not)
ColdStart(p, show_scroll_this_frame, anims) ==
    IF show_scroll_this_frame /\ p.current_scroll_bar_width <= 0
    THEN { [width |-> (MaxScrollBarWidth * t) \div AnimDen, anim |-> t] : t \in anims }
    ELSE { [width |-> p.current_scroll_bar_width, anim |-> -1] }

\* The clamp that follows the interaction with the scroll bar
BarClamp(off, content_size_y, inner_height) ==
    Min(Max(off, 0), content_size_y - inner_height)

\* A click outside the handle that puts the top of the handle at the pointer
BarInteract_NoCenter(p, off, delta_y, active, pos) ==
    LET top == p.inner_top
        bottom == p.inner_top + p.inner_height
        content_size_y == p.content_height
        handle_top == RemapClamp(off, 0, content_size_y, top, bottom)
        handle_bottom == RemapClamp(off + p.inner_height, 0, content_size_y, top, bottom)
    IN  IF active /\ pos # None
        THEN IF pos.in_bar_x /\ handle_top <= pos.y /\ pos.y <= handle_bottom
             THEN IF top <= pos.y /\ pos.y <= bottom
                  THEN off + (delta_y * content_size_y) \div p.inner_height
                  ELSE off
             ELSE Remap(pos.y, top, bottom, 0, content_size_y)
        ELSE off

\* The interaction with the scroll bar: response.active and mouse.pos are read
BarInteract(p, off, delta_y, active, pos) ==
    LET top == p.inner_top
        bottom == p.inner_top + p.inner_height
        content_size_y == p.content_height
        handle_top == RemapClamp(off, 0, content_size_y, top, bottom)
        handle_bottom == RemapClamp(off + p.inner_height, 0, content_size_y, top, bottom)
    IN  IF active /\ pos # None
        THEN IF pos.in_bar_x /\ handle_top <= pos.y /\ pos.y <= handle_bottom
             THEN IF top <= pos.y /\ pos.y <= bottom
                  THEN off + (delta_y * content_size_y) \div p.inner_height
                  ELSE off
             ELSE LET mpos_top == pos.y - (handle_bottom - handle_top) \div 2
                  IN  Remap(mpos_top, top, bottom, 0, content_size_y)
        ELSE off

\* A scroll bar that is handled only in the frames that should show it
BarOutcomes_OnlyWhenShown(p, off, width, delta_y, hovered, I) ==
    IF width > 0 /\ (p.content_height > p.inner_height \/ p.always_show_scroll)
    THEN { [off |-> BarClamp(BarInteract(p, off, delta_y, active, pos),
                             p.content_height, p.inner_height),
            bar_active |-> active, painted |-> 2,
            \* mouse.pos is read only if response.active
            pos |-> IF active THEN pos ELSE None] :
             active \in I.bar_actives,
             pos \in IF hovered THEN I.positions \ {None} ELSE I.positions }
    ELSE { [off |-> off, bar_active |-> FALSE, painted |-> 0, pos |-> None] }

\* if current_scroll_bar_width > 0.0 { ... }: the offset after it, and the rectangles painted
BarOutcomes(p, off, width, delta_y, hovered, I) ==
    IF width > 0
    THEN { [off |-> BarClamp(BarInteract(p, off, delta_y, active, pos),
                             p.content_height, p.inner_height),
            bar_active |-> active, painted |-> 2,
            \* mouse.pos is read only if response.active
            pos |-> IF active THEN pos ELSE None] :
             active \in I.bar_actives,
             pos \in IF hovered THEN I.positions \ {None} ELSE I.positions }
    ELSE { [off |-> off, bar_active |-> FALSE, painted |-> 0, pos |-> None] }

\* A final clamp in the order of the scroll bar's clamp: max first, then min
FinalClamp_MaxFirst(off, content_size_y, inner_height) ==
    Min(Max(off, 0), content_size_y - inner_height)

\* The clamp before the state is stored
FinalClamp(off, content_size_y, inner_height) ==
    Max(Min(off, content_size_y - inner_height), 0)

\* A state whose offset follows the velocity on both axes
StoredState_BothAxes(p, off, show_scroll, vel) ==
    [ offset      |-> Vec2(p.state.offset.x - vel.x,
                           FinalClamp(off, p.content_height, p.inner_height)),
      show_scroll |-> show_scroll,
      vel         |-> vel ]

\* The state that Prepared::end stores: only the y of the offset, show_scroll
\* and the velocity have been assigned since begin loaded it
StoredState(p, off, show_scroll, vel) ==
    [ offset      |-> Vec2(p.state.offset.x,
                           FinalClamp(off, p.content_height, p.inner_height)),
      show_scroll |-> show_scroll,
      vel         |-> vel ]

\* One outcome of Prepared::end from the outcomes of its steps
Finish(p, tgt, delta_y, velocity, dt, t, k, w, c, b) ==
    LET content_is_too_small == p.content_height > p.inner_height
        show_scroll_this_frame ==
            ShowScrollThisFrame(content_is_too_small, p.always_show_scroll)
    IN  [ state   |-> StoredState(p, b.off, show_scroll_this_frame, k.vel),
          target  |-> t.target,
          size_y  |-> Min(p.inner_height, p.content_height),
          probe   |-> [ id             |-> p.id,
                        content_height |-> p.content_height,
                        inner_height   |-> p.inner_height,
                        target         |-> tgt,
                        always         |-> p.always_show_scroll,
                        loaded         |-> p.state,
                        begin_width    |-> p.current_scroll_bar_width,
                        off_loaded     |-> p.state.offset.y,
                        content_top    |-> p.content_top,
                        clip_height    |-> p.clip_height,
                        off_target     |-> t.off,
                        active         |-> k.active,
                        delta          |-> delta_y,
                        velocity       |-> velocity,
                        dt             |-> dt,
                        off_kinetic    |-> k.off,
                        hovered        |-> w.hovered,
                        wheel          |-> w.wheel,
                        off_wheel      |-> w.off,
                        anim           |-> c.anim,
                        width          |-> c.width,
                        bar_active     |-> b.bar_active,
                        pos            |-> b.pos,
                        off_bar        |-> b.off,
                        painted        |-> b.painted,
                        \* whether ctx.request_repaint() was called
                        repaint        |-> k.repaint
                                             \/ (show_scroll_this_frame # p.state.show_scroll) ] ]

\* Every outcome of Prepared::end for the frame's mouse.delta.y, mouse.velocity
\* and unstable_dt
EndOutcomes(p, tgt, I, delta_y, velocity, dt) ==
    LET content_is_too_small == p.content_height > p.inner_height
        show_scroll_this_frame ==
            ShowScrollThisFrame(content_is_too_small, p.always_show_scroll)
        t == TargetStep(p, tgt)
    IN  UNION { UNION { UNION {
            { Finish(p, tgt, delta_y, velocity, dt, t, k, w, c, b) :
                b \in BarOutcomes(p, w.off, c.width, delta_y, w.hovered, I) } :
            c \in ColdStart(p, show_scroll_this_frame, I.anims) } :
            w \in WheelOutcomes(k.off, I) } :
            k \in DragOrKinetic(p, t.off, content_is_too_small, I, delta_y, velocity, dt) }

\* ui.allocate_space(size): the enclosing content_ui, if any, grows by the region's height
AllocateSpace(rest, size_y) ==
    IF rest = << >> THEN rest
    ELSE [rest EXCEPT ![1].content_height = @ + size_y]

\* The history of a region's kinetic run after one more Prepared::end
KinNext(old, r, dt) ==
    IF r.probe.active
    THEN [v0 |-> Length(r.state.vel), budget |-> Length(r.state.vel), all_small |-> TRUE]
    ELSE [v0 |-> old.v0,
          budget |-> IF old.budget < 0 \/ old.budget - Friction(dt) < 0
                     THEN -1 ELSE old.budget - Friction(dt),
          all_small |-> old.all_small
                          /\ r.probe.content_height > r.probe.inner_height]

\* ScrollArea::show, from the return of add_contents: Prepared::end
ShowEnd(I, track_kin, track_target) ==
    /\ stack # << >>
    /\ \E delta_y \in I.deltas, velocity \in I.velocities, dt \in I.dts :
          \E r \in EndOutcomes(stack[1], scroll_target, I, delta_y, velocity, dt) :
              /\ scroll_areas' = InsertState(stack[1].id, r.state)
              /\ scroll_target' = r.target
              /\ stack' = AllocateSpace(Tail(stack), r.size_y)
              /\ last' = r.probe
              /\ kin' = IF track_kin THEN [kin EXCEPT ![stack[1].id] = KinNext(@, r, dt)]
                         ELSE kin
              /\ hist' = IF track_target /\ r.probe.target # None
                          THEN [hist EXCEPT !.uses = @ + 1]
                          ELSE hist
    /\ UNCHANGED <<in_frame, shown>>
    /\ UNCHANGED <<grid_vars, store_vars>>

(***************************************************************************)
(* grid.rs: the State of a grid.  Indices are the code's, from 0.          *)
(***************************************************************************)
Some(v) == [some |-> TRUE, v |-> v]

UnwrapOr(opt, default) == IF opt.some THEN opt.v ELSE default

DefaultGridState == [col_widths |-> << >>, row_heights |-> << >>]

\* Vec::resize(len.max(index + 1), 0.0) followed by v[index] = v[index].max(value)
ResizeAndMax(v, index, value) ==
    LET resized == v \o [k \in 1 .. (Max(Len(v), index + 1) - Len(v)) |-> 0]
    IN  [resized EXCEPT ![index + 1] = Max(@, value)]

\* A set_min_col_width that overwrites the width instead of taking the maximum
set_min_col_width_Overwrite(state, col, width) ==
    [state EXCEPT !.col_widths =
        [ResizeAndMax(@, col, width) EXCEPT ![col + 1] = width]]

set_min_col_width(state, col, width) ==
    [state EXCEPT !.col_widths = ResizeAndMax(@, col, width)]

set_min_row_height(state, row, height) ==
    [state EXCEPT !.row_heights = ResizeAndMax(@, row, height)]

dimensions(state) == [x |-> Len(state.row_heights), y |-> Len(state.col_widths)]

col_width(state, col) ==
    IF col < Len(state.col_widths) THEN Some(state.col_widths[col + 1]) ELSE None

row_height(state, row) ==
    IF row < Len(state.row_heights) THEN Some(state.row_heights[row + 1]) ELSE None

\* A get_or_default that resets the entry to the default at every call
GetOrDefault_Reset(map, id) ==
    [i \in DOMAIN map \cup {id} |-> IF i = id THEN DefaultGridState ELSE map[i]]

\* id_data.get_or_default::<State>(id): an absent entry is created with the default
GetOrDefault(map, id) ==
    [i \in DOMAIN map \cup {id} |-> IF i \in DOMAIN map THEN map[i] ELSE DefaultGridState]

\* id_data.insert(id, state)
InsertGridState(map, id, state) ==
    [i \in DOMAIN map \cup {id} |-> IF i = id THEN state ELSE map[i]]

(***************************************************************************)
(* The grids of the model                                                  *)
(***************************************************************************)
MaxRows == 2

MaxCols == 2

\* The sizes that the widgets of a cell measure
WidgetSizes == { Vec2(40, 10), Vec2(60, 30), Vec2(50, 10), Vec2(30, 30) }

\* ui.spacing().item_spacing and ui.spacing().interact_size
GridSpacing == Vec2(item_spacing_x, 4)

InteractSize == Vec2(40, 20)

\* Where the cursor of the region is when the grid is created:
\* ui.placer().max_rect().intersect(ui.cursor()).min
GridOrigin == Vec2(10, 0)

\* The bottom of the finite rectangle of the region the grid is placed in
RegionBottoms == {50}

\* f32::INFINITY, and a finite f32
INFINITY == [finite |-> FALSE]

Finite(v) == [finite |-> TRUE, v |-> v]

\* f32::at_least and f32::at_most (the bound of at_most may be infinite)
at_least(x, lower) == Max(x, lower)

at_most(x, upper) == IF upper.finite THEN Min(x, upper.v) ELSE x

NoColors == [list |-> {}, by_row |-> << >>, by_column |-> << >>, by_cell |-> << >>]

\* A SinglePredicate or DoublePredicate: a colour and the name of its predicate
Colored(color, predicate) == [color |-> color, predicate |-> predicate]

\* The sizes measured in the runs that compare one frame with the next
ConvergeSizes == { Vec2(40, 10), Vec2(60, 30) }

\* The builders of the grids shown: plain, striped with a header row, and with
\* colours by row, by column, by cell and for two cells of the list
GridOptions ==
    { [striped |-> FALSE, header_row |-> FALSE, max_col_width |-> INFINITY,
       color_spec |-> NoColors],
      [striped |-> FALSE, header_row |-> FALSE, max_col_width |-> Finite(45),
       color_spec |-> NoColors],
      [striped |-> TRUE, header_row |-> TRUE, max_col_width |-> INFINITY,
       color_spec |-> NoColors],
      [striped |-> FALSE, header_row |-> FALSE, max_col_width |-> INFINITY,
       color_spec |-> [list |-> {<<0, 0>>, <<1, 1>>},
                       by_row |-> << Colored("row", "all") >>,
                       by_column |-> << Colored("column", "all") >>,
                       by_cell |-> << Colored("cell", "diagonal") >>]] }

\* The builder without options: Grid::new(id)
PlainOptions ==
    { [striped |-> FALSE, header_row |-> FALSE, max_col_width |-> INFINITY,
       color_spec |-> NoColors] }

\* A striped predicate that holds for the odd rows
SinglePredicate_Odd(name, i) ==
    CASE name = "even" -> i % 2 = 1
      [] name = "zero" -> i = 0
      [] OTHER -> TRUE

\* The predicates of the colour specifications, by name
SinglePredicate(name, i) ==
    CASE name = "even" -> i % 2 = 0
      [] name = "zero" -> i = 0
      [] OTHER -> TRUE

DoublePredicate(name, row, col) ==
    CASE name = "diagonal" -> row = col
      [] OTHER -> TRUE

\* A layout that goes on accumulating into the previous frame's state
GridLayoutNew_Merging(map, id) ==
    [ id            |-> id,
      prev_state    |-> GetOrDefault(map, id)[id],
      curr_state    |-> GetOrDefault(map, id)[id],
      spacing       |-> GridSpacing,
      color_spec    |-> NoColors,
      initial_x     |-> GridOrigin.x,
      min_cell_size |-> InteractSize,
      max_cell_size |-> Vec2(INFINITY, INFINITY),
      col           |-> 0,
      row           |-> 0,
      cursor        |-> GridOrigin,
      cells         |-> << >> ]

\* GridLayout::new: the previous state is a copy of the stored one, the current
\* state is empty.  cursor is the cursor of the region the grid is placed in;
\* cells lists the cells advanced over in this frame (observation only).
GridLayoutNew(map, id) ==
    [ id            |-> id,
      prev_state    |-> GetOrDefault(map, id)[id],
      curr_state    |-> DefaultGridState,
      spacing       |-> GridSpacing,
      color_spec    |-> NoColors,
      initial_x     |-> GridOrigin.x,
      min_cell_size |-> InteractSize,
      max_cell_size |-> Vec2(INFINITY, INFINITY),
      col           |-> 0,
      row           |-> 0,
      cursor        |-> GridOrigin,
      cells         |-> << >> ]

prev_col_width(g, col) == UnwrapOr(col_width(g.prev_state, col), g.min_cell_size.x)

prev_row_height(g, row) == UnwrapOr(row_height(g.prev_state, row), g.min_cell_size.y)

\* A prediction that prefers the width recorded in this frame to the previous frame's
available_rect_finite_CurrFirst(g, bottom) ==
    LET width == IF g.max_cell_size.x.finite THEN g.max_cell_size.x.v
                 ELSE UnwrapOr(IF col_width(g.curr_state, g.col).some
                               THEN col_width(g.curr_state, g.col)
                               ELSE col_width(g.prev_state, g.col),
                               g.min_cell_size.x)
        height == bottom - g.cursor.y
    IN  Vec2(width, at_most(at_least(height, g.min_cell_size.y), g.max_cell_size.y))

\* GridLayout::available_rect_finite: the size offered to the next cell; bottom is
\* region.max_rect_finite().max.y and the top of the available rectangle is the
\* cursor's
available_rect_finite(g, bottom) ==
    LET width == IF g.max_cell_size.x.finite THEN g.max_cell_size.x.v
                 ELSE UnwrapOr(IF col_width(g.prev_state, g.col).some
                               THEN col_width(g.prev_state, g.col)
                               ELSE col_width(g.curr_state, g.col),
                               g.min_cell_size.x)
        height == bottom - g.cursor.y
    IN  Vec2(width, at_most(at_least(height, g.min_cell_size.y), g.max_cell_size.y))

\* GridLayout::next_cell: the size of the frame of the next cell
next_cell(g, child_size) ==
    LET width == UnwrapOr(col_width(g.prev_state, g.col), 0)
        height == prev_row_height(g, g.row)
    IN  Vec2(Max(child_size.x, width), Max(child_size.y, height))

\* An advance that records the sizes in the previous frame's state as well
advance_UpdatesPrev(g, frame_size, widget_size) ==
    LET record(state) ==
            set_min_row_height(
                set_min_col_width(state, g.col, Max(widget_size.x, g.min_cell_size.x)),
                g.row, Max(widget_size.y, g.min_cell_size.y))
    IN  [g EXCEPT !.curr_state = record(@),
                  !.prev_state = record(@),
                  !.col = @ + 1,
                  !.cursor.x = @ + frame_size.x + g.spacing.x]

\* An advance that moves the cursor by the width of the widget, not of the frame
advance_WidgetWidth(g, frame_size, widget_size) ==
    LET with_col == set_min_col_width(g.curr_state, g.col,
                                      Max(widget_size.x, g.min_cell_size.x))
        with_row == set_min_row_height(with_col, g.row,
                                       Max(widget_size.y, g.min_cell_size.y))
    IN  [g EXCEPT !.curr_state = with_row,
                  !.col = @ + 1,
                  !.cursor.x = @ + widget_size.x + g.spacing.x]

\* GridLayout::advance (the debug painter is off)
advance(g, frame_size, widget_size) ==
    LET with_col == set_min_col_width(g.curr_state, g.col,
                                      Max(widget_size.x, g.min_cell_size.x))
        with_row == set_min_row_height(with_col, g.row,
                                       Max(widget_size.y, g.min_cell_size.y))
    IN  [g EXCEPT !.curr_state = with_row,
                  !.col = @ + 1,
                  !.cursor.x = @ + frame_size.x + g.spacing.x]

RECURSIVE Flatten(_)
\* The concatenation of a sequence of sequences
Flatten(ss) == IF ss = << >> THEN << >> ELSE Head(ss) \o Flatten(Tail(ss))

\* One background fill: the function that painted it, the list of the colour
\* specification it comes from, its colour, and the row and column it is for
\* (-1: the whole row)
Fill(fn, by, color, row, col) ==
    [fn |-> fn, by |-> by, color |-> color, row |-> row, col |-> col]

\* A paint_row that paints whether or not the previous frame had the row
paint_row_Unguarded(g, color) ==
    << Fill("paint_row", "by_row", color, g.row, -1) >>

\* GridLayout::paint_row paints only a row that the previous frame had
paint_row(g, color) ==
    IF row_height(g.prev_state, g.row).some
    THEN << Fill("paint_row", "by_row", color, g.row, -1) >>
    ELSE << >>

paint_column(g, col, color) == << Fill("paint_column", "by_column", color, g.row, col) >>

paint_cell(g, col, by, color) == << Fill("paint_cell", by, color, g.row, col) >>

\* A paint pass that paints the columns for every row
do_paint_ColumnsEveryRow(g) ==
    LET spec == g.color_spec
        ncols == dimensions(g.prev_state).y
        rows == Flatten([k \in 1 .. Len(spec.by_row) |->
                    IF SinglePredicate(spec.by_row[k].predicate, g.row)
                    THEN paint_row(g, spec.by_row[k].color) ELSE << >>])
        columns ==
            Flatten([k \in 1 .. Len(spec.by_column) |->
                Flatten([c \in 1 .. ncols |->
                    IF SinglePredicate(spec.by_column[k].predicate, c - 1)
                    THEN paint_column(g, c - 1, spec.by_column[k].color)
                    ELSE << >>])])
        cells ==
            Flatten([c \in 1 .. ncols |->
                Flatten([k \in 1 .. Len(spec.by_cell) |->
                    IF DoublePredicate(spec.by_cell[k].predicate, g.row, c - 1)
                    THEN paint_cell(g, c - 1, "by_cell", spec.by_cell[k].color)
                    ELSE << >>])
                \o (IF <<g.row, c - 1>> \in spec.list
                    THEN paint_cell(g, c - 1, "list", "listed") ELSE << >>)])
    IN  rows \o columns \o cells

\* GridLayout::do_paint: the fills for the row g.row, in the order they are painted
do_paint(g) ==
    LET spec == g.color_spec
        ncols == dimensions(g.prev_state).y
        rows == Flatten([k \in 1 .. Len(spec.by_row) |->
                    IF SinglePredicate(spec.by_row[k].predicate, g.row)
                    THEN paint_row(g, spec.by_row[k].color) ELSE << >>])
        columns ==
            IF g.row = 0
            THEN Flatten([k \in 1 .. Len(spec.by_column) |->
                    Flatten([c \in 1 .. ncols |->
                        IF SinglePredicate(spec.by_column[k].predicate, c - 1)
                        THEN paint_column(g, c - 1, spec.by_column[k].color)
                        ELSE << >>])])
            ELSE << >>
        cells ==
            Flatten([c \in 1 .. ncols |->
                Flatten([k \in 1 .. Len(spec.by_cell) |->
                    IF DoublePredicate(spec.by_cell[k].predicate, g.row, c - 1)
                    THEN paint_cell(g, c - 1, "by_cell", spec.by_cell[k].color)
                    ELSE << >>])
                \o (IF <<g.row, c - 1>> \in spec.list
                    THEN paint_cell(g, c - 1, "list", "listed") ELSE << >>)])
    IN  rows \o columns \o cells

\* An end_row that advances by the height measured in this frame
end_row_CurrHeight(g) ==
    LET row_height_ == UnwrapOr(row_height(g.curr_state, g.row), g.min_cell_size.y)
    IN  [g EXCEPT !.cursor = Vec2(g.initial_x, @.y + row_height_ + g.spacing.y),
                  !.col = 0,
                  !.row = @ + 1]

\* GridLayout::end_row, without its paint pass
end_row(g) ==
    LET row_height_ == prev_row_height(g, g.row)
    IN  [g EXCEPT !.cursor = Vec2(g.initial_x, @.y + row_height_ + g.spacing.y),
                  !.col = 0,
                  !.row = @ + 1]

\* A save that writes and requests a repaint in every frame
SaveWrites_Always(g) == TRUE

\* Whether GridLayout::save writes the store and requests a repaint
SaveWrites(g) == g.curr_state # g.prev_state

\* A save that stores, per column and row, the larger of the previous frame's
\* and this frame's size
save_KeepsMax(map, g) ==
    LET merge(a, b) ==
            [k \in 1 .. Max(Len(a), Len(b)) |->
                Max(IF k <= Len(a) THEN a[k] ELSE 0, IF k <= Len(b) THEN b[k] ELSE 0)]
        merged == [col_widths |-> merge(g.prev_state.col_widths, g.curr_state.col_widths),
                   row_heights |-> merge(g.prev_state.row_heights,
                                         g.curr_state.row_heights)]
    IN  IF SaveWrites(g) THEN InsertGridState(map, g.id, merged) ELSE map

\* The store after GridLayout::save
save(map, g) ==
    IF SaveWrites(g) THEN InsertGridState(map, g.id, g.curr_state) ELSE map

\* Grid::show up to the call of add_contents: the layout is built from the
\* builder, the striped and header_row colours are pushed, and start_row paints
\* the backgrounds of row 0.
GridShow(options) ==
    /\ in_frame
    /\ grid = None
    /\ \E id \in GridIds, o \in options :
          LET by_row == o.color_spec.by_row
                            \o (IF o.striped THEN << Colored("striped", "even") >>
                                ELSE << >>)
                            \o (IF o.header_row THEN << Colored("header", "zero") >>
                                ELSE << >>)
              g == [GridLayoutNew(id_data, id) EXCEPT
                       !.max_cell_size = Vec2(o.max_col_width, INFINITY),
                       !.color_spec = [o.color_spec EXCEPT !.by_row = by_row]]
          IN  /\ id \notin shown
              /\ shown' = shown \cup {id}
              /\ id_data' = GetOrDefault(id_data, id)
              /\ grid' = g
              /\ painter' = painter \o do_paint(g)
    /\ glast' = NoSave
    /\ last' = NoEnd
    /\ UNCHANGED <<scroll_areas, scroll_target, stack, in_frame, kin, hist, filled>>
    /\ UNCHANGED store_vars

\* add_contents puts a widget into the next cell: the placer asks
\* available_rect for the size to offer and next_cell for the frame, the widget
\* takes its size, and advance records it.
AddCell(sizes) ==
    /\ grid # None
    /\ grid.row < MaxRows
    /\ grid.col < MaxCols
    /\ \E size \in sizes, bottom \in RegionBottoms :
          grid' = [advance(grid, next_cell(grid, size), size) EXCEPT
                      !.cells = Append(@, [row |-> grid.row, col |-> grid.col,
                                           size |-> size,
                                           frame |-> next_cell(grid, size),
                                           remaining |-> bottom - grid.cursor.y,
                                           offered |-> available_rect_finite(grid, bottom)])]
    /\ UNCHANGED <<id_data, painter, glast, filled>>
    /\ UNCHANGED <<scroll_vars, store_vars>>

\* add_contents calls ui.end_row(): GridLayout::end_row with its paint pass
EndRow ==
    /\ grid # None
    /\ grid.row < MaxRows
    /\ grid' = end_row(grid)
    /\ painter' = painter \o do_paint(end_row(grid))
    /\ UNCHANGED <<id_data, glast, filled>>
    /\ UNCHANGED <<scroll_vars, store_vars>>

\* What was measured in a frame: the cells filled and the size of each
Measured(cells) ==
    [k \in 1 .. Len(cells) |->
        [row |-> cells[k].row, col |-> cells[k].col, size |-> cells[k].size]]

\* add_contents has returned: ui.save_grid() calls GridLayout::save, show returns
SaveGrid(track) ==
    /\ grid # None
    /\ id_data' = save(id_data, grid)
    /\ filled' = IF track
                 THEN [filled EXCEPT ![grid.id] =
                          Some([cells |-> Measured(grid.cells),
                                repaint |-> SaveWrites(grid)])]
                 ELSE filled
    /\ glast' = [ id         |-> grid.id,
                  prev_state |-> grid.prev_state,
                  curr_state |-> grid.curr_state,
                  before     |-> id_data[grid.id],
                  cells      |-> grid.cells,
                  rows_ended |-> grid.row,
                  filled_before |-> filled[grid.id],
                  \* whether ctx.request_repaint() was called
                  repaint    |-> SaveWrites(grid) ]
    /\ grid' = None
    /\ UNCHANGED painter
    /\ UNCHANGED <<scroll_vars, store_vars>>

(***************************************************************************)
(* The by-type store (AnyMap) and the serializable TypeId                  *)
(***************************************************************************)
MaxValue == 1

Types == {"T1", "T2", "T3"}

\* The u64 values that the hashes of the types' ids take in this model
TypeKeys == {1, 2, 3}

Values == 0 .. MaxValue

\* T::default()
DefaultValue == 0

\* A run in which the hashes of the three types differ
DistinctHasher ==
    [t \in Types |-> IF t = "T1" THEN 1 ELSE IF t = "T2" THEN 2 ELSE 3]

StoreInit(hashers) ==
    /\ hasher \in hashers
    /\ by_type = << >>
    /\ ser_store = << >>
    /\ panicked = FALSE
    /\ expect = [t \in Types |-> -1]
    /\ slast = [op |-> "none"]

\* A TypeId that keeps only the lowest bit of the hash
TypeIdOf_LowBit(T) == 1 + (hasher[T] % 2)

\* TypeId::of::<T>(): the hash of std::any::TypeId::of::<T>()
TypeIdOf(T) == hasher[T]

\* AnyMapElement::new(value) for a value of type T
Element(T, value) == [type |-> T, value |-> value]

\* map.entry(key).or_insert_with(|| element)
OrInsert(map, key, element) ==
    [k \in DOMAIN map \cup {key} |-> IF k \in DOMAIN map THEN map[k] ELSE element]

\* A downcast that takes any element for a T
Downcasts_Any(element, T) == TRUE

\* element.get_mut::<T>(): the downcast succeeds for an element of type T only
Downcasts(element, T) == element.type = T

\* by_type.get_or_default::<T>(): the entry of T's TypeId is created with the
\* default if absent; a slot that holds another type makes the access panic.
GetOrDefaultByType ==
    /\ ~panicked
    /\ \E T \in Types :
          LET inserted == OrInsert(by_type, TypeIdOf(T), Element(T, DefaultValue))
              ok == Downcasts(inserted[TypeIdOf(T)], T)
          IN  /\ by_type' = inserted
              /\ panicked' = ~ok
              /\ expect' = IF ok THEN [expect EXCEPT ![T] = inserted[TypeIdOf(T)].value]
                           ELSE expect
              /\ slast' = [op |-> "get", type |-> T]
    /\ UNCHANGED <<hasher, ser_store>>
    /\ UNCHANGED <<scroll_vars, grid_vars>>

\* *by_type.get_or_default::<T>() = value: a write through the returned reference
WriteByType ==
    /\ ~panicked
    /\ \E T \in Types, value \in Values :
          LET inserted == OrInsert(by_type, TypeIdOf(T), Element(T, DefaultValue))
              ok == Downcasts(inserted[TypeIdOf(T)], T)
          IN  /\ by_type' = IF ok THEN [inserted EXCEPT ![TypeIdOf(T)].value = value]
                            ELSE inserted
              /\ panicked' = ~ok
              /\ expect' = IF ok THEN [expect EXCEPT ![T] = value] ELSE expect
              /\ slast' = [op |-> "write", type |-> T]
    /\ UNCHANGED <<hasher, ser_store>>
    /\ UNCHANGED <<scroll_vars, grid_vars>>

(***************************************************************************)
(* The serializable by-instance store (serializable::AnyMapId)             *)
(***************************************************************************)
SerKeys == {"k1", "k2"}

\* The bytes a value is persisted as: one decimal digit
Serialize(value) == << 48 + value >>

\* The value that bytes are read back as, or None if they are not a value's bytes
Deserialize(bytes) ==
    IF Len(bytes) = 1 /\ (bytes[1] - 48) \in Values THEN Some(bytes[1] - 48) ELSE None

\* Bytes that a damaged or foreign file holds for an entry
CorruptBytes == { << >>, << 33 >>, << 49, 48, 48 >> }

\* An element holds a value, or the bytes loaded for it until it is first read
ValueElement(value) == [form |-> "value", value |-> value]

SerializedElement(bytes) == [form |-> "serialized", bytes |-> bytes]

\* A read that takes what the damaged bytes look like for the value
Resolve_Garbage(element) ==
    IF element.form = "value" THEN element.value
    ELSE UnwrapOr(Deserialize(element.bytes), Len(element.bytes))

\* The value an access finds in an element: bytes that fail to deserialize are
\* replaced by the default, without an error
Resolve(element) ==
    IF element.form = "value" THEN element.value
    ELSE UnwrapOr(Deserialize(element.bytes), DefaultValue)

\* get_or_default on the serializable store: the store after it
SerAccess(map, key) ==
    [k \in DOMAIN map \cup {key} |->
        IF k # key THEN map[k]
        ELSE IF key \in DOMAIN map THEN ValueElement(Resolve(map[key]))
        ELSE ValueElement(DefaultValue)]

\* ser_store.get_or_default::<T>(key)
SerGetOrDefault ==
    /\ \E key \in SerKeys :
          /\ ser_store' = SerAccess(ser_store, key)
          /\ slast' = [op |-> "ser_get", key |-> key, before |-> ser_store,
                       returned |-> SerAccess(ser_store, key)[key].value]
    /\ UNCHANGED <<hasher, by_type, panicked, expect>>
    /\ UNCHANGED <<scroll_vars, grid_vars>>

\* *ser_store.get_or_default::<T>(key) = value
SerWrite ==
    /\ \E key \in SerKeys, value \in Values :
          /\ ser_store' = [SerAccess(ser_store, key) EXCEPT ![key] = ValueElement(value)]
          /\ slast' = [op |-> "ser_write", key |-> key]
    /\ UNCHANGED <<hasher, by_type, panicked, expect>>
    /\ UNCHANGED <<scroll_vars, grid_vars>>

\* The store is serialized at the end of a run and loaded at the start of the
\* next one; the bytes of any of its entries may have been damaged in between.
SerReload ==
    /\ ser_store # << >>
    /\ \E damaged \in SUBSET DOMAIN ser_store, junk \in CorruptBytes :
          ser_store' =
              [k \in DOMAIN ser_store |->
                  IF k \in damaged THEN SerializedElement(junk)
                  ELSE IF ser_store[k].form = "value"
                       THEN SerializedElement(Serialize(ser_store[k].value))
                       ELSE ser_store[k]]
    /\ slast' = [op |-> "ser_reload"]
    /\ UNCHANGED <<hasher, by_type, panicked, expect>>
    /\ UNCHANGED <<scroll_vars, grid_vars>>

ScrollNext ==
    \/ BeginFrame
    \/ ShowBegin(ScrollIds, KineticInputs)
    \/ ShowBegin(ScrollIds, WheelInputs)
    \/ ShowBegin(ScrollIds, BarInputs)
    \/ AddContents
    \/ SetScrollTarget(FALSE)
    \/ ShowEnd(KineticInputs, FALSE, FALSE)
    \/ ShowEnd(WheelInputs, FALSE, FALSE)
    \/ ShowEnd(BarInputs, FALSE, FALSE)
    \/ EndFrame

KineticNext ==
    \/ BeginFrame
    \/ ShowBegin(ScrollIds, KineticInputs)
    \/ AddContents
    \/ ShowEnd(KineticInputs, TRUE, FALSE)
    \/ EndFrame

NestedNext ==
    \/ BeginFrame
    \/ ShowBegin(NestedIds, QuietInputs)
    \/ AddContents
    \/ SetScrollTarget(TRUE)
    \/ ShowEnd(QuietInputs, FALSE, TRUE)
    \/ EndFrame

GridNext ==
    \/ BeginFrame
    \/ GridShow(GridOptions)
    \/ AddCell(WidgetSizes)
    \/ EndRow
    \/ SaveGrid(FALSE)
    \/ EndFrame

\* Frames of a plain grid, with the cells of each grid's last frame remembered
ConvergeNext ==
    \/ BeginFrame
    \/ GridShow(PlainOptions)
    \/ AddCell(ConvergeSizes)
    \/ EndRow
    \/ SaveGrid(TRUE)
    \/ EndFrame

StoreNext ==
    \/ GetOrDefaultByType
    \/ WriteByType

SerialNext ==
    \/ SerGetOrDefault
    \/ SerWrite
    \/ SerReload

Init == ScrollInit /\ GridInit /\ StoreInit({DistinctHasher})

\* The runs of the by-type store: the hashes of two types may be equal
InitStore == ScrollInit /\ GridInit /\ StoreInit([Types -> TypeKeys])

SpecScroll == Init /\ [][ScrollNext]_vars

SpecKinetic == Init /\ [][KineticNext]_vars

SpecNested == Init /\ [][NestedNext]_vars

SpecGrid == Init /\ [][GridNext]_vars

SpecConverge == Init /\ [][ConvergeNext]_vars

SpecStore == InitStore /\ [][StoreNext]_vars

SpecSerial == Init /\ [][SerialNext]_vars

(***************************************************************************)
(* Properties of the scroll region                                         *)
(***************************************************************************)
\* A Prepared::end has just run: last holds what it read and computed.
Ended == last.id # "none"

\* The state that this Prepared::end stored
Persisted == scroll_areas[last.id]

\* C1: the offset.y that Prepared::end stores lies in
\* [0, max(0, content_height - inner_height)], whatever was dragged, wheeled,
\* scrolled kinetically, clicked on the scroll bar or targeted, and also when the
\* content is shorter than the inner rectangle; no stored offset is ever negative.
C1_OffsetClamped ==
    /\ \A id \in DOMAIN scroll_areas : scroll_areas[id].offset.y >= 0
    /\ Ended =>
         /\ 0 <= Persisted.offset.y
         /\ Persisted.offset.y <= Max(0, last.content_height - last.inner_height)

\* C1 witness: content shorter than the inner rectangle, the scroll bar's clamp
\* left a negative offset, and the stored offset is 0.
C1_Witness ==
    /\ Ended
    /\ last.content_height < last.inner_height
    /\ last.off_bar < 0
    /\ Persisted.offset.y = 0

\* C2 as claimed: once the friction of the undragged frames since the last
\* dragged frame exceeds the speed that frame stored, the stored velocity is zero.
C2_DecayInEveryFrame ==
    \A id \in DOMAIN scroll_areas :
        kin[id].budget < 0 => scroll_areas[id].vel = Vec2Zero

\* C2 as amended: the same, for runs of undragged frames in each of which the
\* content is taller than the inner rectangle (the frames in which Prepared::end
\* applies friction at all); the velocity is then zero for the rest of the run.
C2_DecayWhileTooTall ==
    \A id \in DOMAIN scroll_areas :
        (kin[id].budget < 0 /\ kin[id].all_small) => scroll_areas[id].vel = Vec2Zero

\* C2 witness: a run that started at 1000 px/s and whose friction has exceeded it.
C2_Witness ==
    /\ Ended
    /\ kin[last.id].v0 = 1000
    /\ kin[last.id].budget < 0
    /\ kin[last.id].all_small
    /\ Persisted.vel = Vec2Zero

\* C6: a pending scroll target sets offset.y to
\* target_y - content_top - clip_height * center_ratio and is consumed: the slot is
\* None afterwards.  With nothing else moving the region, the stored offset is
\* that value clamped to the reachable range.
C6_TargetSetsOffset ==
    (Ended /\ last.target # None) =>
        /\ last.off_target =
              last.target.y - last.content_top
                  - (last.clip_height * last.target.center_ratio) \div RatioDen
        /\ scroll_target = None
        /\ (~last.active /\ ~last.hovered /\ ~last.bar_active
                /\ Persisted.vel = Vec2Zero) =>
              Persisted.offset.y =
                  Max(0, Min(last.off_target, last.content_height - last.inner_height))

\* C6 witness: target 400, center ratio 1/2, clip height 200, content top 0:
\* the stored offset is 300 and the slot is empty.
C6_Witness ==
    /\ Ended
    /\ last.target = [some |-> TRUE, y |-> 400, center_ratio |-> 1]
    /\ last.clip_height = 200
    /\ last.content_top = 0
    /\ last.off_target = 300
    /\ Persisted.offset.y = 300
    /\ scroll_target = None

\* C7: a scroll target is used by at most one Prepared::end: the first one to
\* read it clears the slot, and an end that reads None keeps the loaded offset.
C7_AtMostOneConsumer ==
    /\ hist.uses <= 1
    /\ (Ended /\ last.target = None) => last.off_target = last.off_loaded
    /\ (Ended /\ last.target # None) => scroll_target = None

\* C7 witness: the outer region ends after a nested region consumed the target
\* (the nested region's height is part of the outer content) and reads None.
C7_Witness ==
    /\ Ended
    /\ last.id = "a"
    /\ shown = {"a", "b"}
    /\ last.content_height = 700
    /\ last.target = None
    /\ hist.uses = 1

\* C9: the slot holds one value: what a Prepared::end consumes is the value set
\* last, also when that set replaced a pending value; and the slot is None in a
\* new frame until something is set in that frame.
C9_SingleSlot ==
    /\ (Ended /\ last.target # None) => last.target = hist.set
    /\ (in_frame /\ hist.set = None) => scroll_target = None
    /\ scroll_target \in ScrollTargets \cup {None}

\* C9 witness: the consumed value had replaced a different pending value.
C9_Witness ==
    /\ Ended
    /\ last.target # None
    /\ hist.overwritten # None
    /\ hist.overwritten # last.target

\* C8: with the pointer in the outer rectangle, Prepared::end subtracts
\* scroll_delta.y from offset.y whether the content is dragged or not, and the
\* stored offset is the result clamped to the reachable range.
C8_WheelApplied ==
    Ended =>
        /\ last.hovered => last.off_wheel = last.off_kinetic - last.wheel
        /\ ~last.hovered => last.off_wheel = last.off_kinetic
        /\ (last.hovered /\ ~last.bar_active) =>
              Persisted.offset.y =
                  Max(0, Min(last.off_kinetic - last.wheel,
                             last.content_height - last.inner_height))

\* C8 witness: content 500, inner 200, offset 0, dragged, wheel delta 50:
\* the offset would be -50 and 0 is stored.
C8_Witness ==
    /\ Ended
    /\ last.content_height = 500
    /\ last.inner_height = 200
    /\ last.active
    /\ last.hovered
    /\ last.wheel = 50
    /\ last.off_kinetic = 0
    /\ last.off_wheel = -50
    /\ Persisted.offset.y = 0

\* Whether the scroll bar should be shown in the frame of the Prepared::end that
\* has just run
ShouldShow == last.content_height > last.inner_height \/ last.always

\* C15: a Prepared that has begun holds the state stored for its id, or offset 0,
\* show_scroll false, velocity 0 if nothing is stored for it; and a
\* Prepared::end always stores the state of its id: the offset it clamped, the
\* show_scroll of this frame and the horizontal offset it loaded.
C15_StateSurvivesFrames ==
    /\ \A k \in 1 .. Len(stack) :
          stack[k].state =
              IF stack[k].id \in DOMAIN scroll_areas
              THEN scroll_areas[stack[k].id]
              ELSE [offset |-> [x |-> 0, y |-> 0], show_scroll |-> FALSE,
                    vel |-> [x |-> 0, y |-> 0]]
    /\ Ended =>
          /\ last.id \in DOMAIN scroll_areas
          /\ Persisted.offset.x = last.loaded.offset.x
          /\ Persisted.offset.y =
                Max(Min(last.off_bar, last.content_height - last.inner_height), 0)
          /\ Persisted.show_scroll = ShouldShow
          /\ (last.content_height <= last.inner_height) => Persisted.vel = last.loaded.vel

\* C15 witness: a region begins with the offset 300, the velocity and the
\* show_scroll that an earlier end stored.
C15_Witness ==
    /\ stack # << >>
    /\ stack[1].id \in DOMAIN scroll_areas
    /\ stack[1].state.offset.y = 300
    /\ stack[1].state.show_scroll
    /\ stack[1].state.vel = Vec2(600, -800)

\* C16 as claimed: with a target pending, the offset after the wheel step is
\* the offset the target gave: drag, kinetic scrolling and wheel change nothing.
C16_TargetAlone ==
    (Ended /\ last.target # None) => last.off_wheel = last.off_target

\* C16 as amended: with a target pending, the target gives the offset first and
\* the steps of every frame follow on that value: a drag subtracts the pointer's
\* delta, a region neither dragged nor moved kinetically keeps it, and the
\* wheel subtracts its delta when the pointer is over the region.
C16_TargetThenInputs ==
    (Ended /\ last.target # None) =>
        /\ last.off_target =
              last.target.y - last.content_top
                  - (last.clip_height * last.target.center_ratio) \div RatioDen
        /\ last.active => last.off_kinetic = last.off_target - last.delta
        /\ (~last.active /\ Persisted.vel = Vec2Zero) => last.off_kinetic = last.off_target
        /\ last.off_wheel =
              IF last.hovered THEN last.off_kinetic - last.wheel ELSE last.off_kinetic

\* C16 witness: the target gives 300, the content is dragged by 50 and the
\* wheel turned by -50 in the same frame: 250 after the drag, 300 after the wheel.
C16_Witness ==
    /\ Ended
    /\ last.target # None
    /\ last.off_target = 300
    /\ last.active
    /\ last.delta = 50
    /\ last.off_kinetic = 250
    /\ last.hovered
    /\ last.wheel = -50
    /\ last.off_wheel = 300

\* C17: the show_scroll that Prepared::end stores is content_height >
\* inner_height or always_show_scroll, and a repaint is requested whenever it
\* differs from the show_scroll loaded by begin.
C17_ShowScrollAndRepaint ==
    Ended =>
        /\ Persisted.show_scroll =
              (last.content_height > last.inner_height \/ last.always)
        /\ Persisted.show_scroll # last.loaded.show_scroll => last.repaint

\* C17 witness: the content fits, always_show_scroll is set and show_scroll was
\* false: true is stored and a repaint requested.
C17_Witness ==
    /\ Ended
    /\ last.content_height <= last.inner_height
    /\ last.always
    /\ ~last.loaded.show_scroll
    /\ Persisted.show_scroll
    /\ last.repaint

\* C18 as claimed: on a cold start the width is the maximum width and the scroll
\* bar is painted in that frame.
C18_ColdStartFullWidth ==
    (Ended /\ ShouldShow /\ last.begin_width <= 0) =>
        /\ last.width = item_spacing_x + 16
        /\ last.painted = 2

\* C18 as amended: on a cold start the width is the maximum width times what
\* animate_bool(id, true) returns in that frame: the full width only if it
\* returns 1, and nothing is painted if it returns 0.  Without a cold start the
\* width is the one begin computed.
C18_ColdStartAnimated ==
    Ended =>
        /\ (ShouldShow /\ last.begin_width <= 0) =>
              /\ last.anim \in AnimValues
              /\ last.width = ((item_spacing_x + 16) * last.anim) \div AnimDen
              /\ last.painted = (IF last.anim > 0 THEN 2 ELSE 0)
        /\ ~(ShouldShow /\ last.begin_width <= 0) =>
              last.anim = -1 /\ last.width = last.begin_width

\* C18 witness: a cold start in a frame where animate_bool returns 1/2: the
\* scroll bar is painted 12 wide, half the maximum of 24.
C18_Witness ==
    /\ Ended
    /\ ShouldShow
    /\ last.begin_width = 0
    /\ last.anim = 1
    /\ last.width = 12
    /\ last.painted = 2

\* C19 as claimed: the scroll bar is handled and its two rectangles painted
\* exactly when it should be shown and its width is positive; in a frame that
\* should not show it the offset is not changed by it and nothing is painted.
C19_BarOnlyWhenShown ==
    Ended =>
        /\ last.painted = 2 <=> (ShouldShow /\ last.width > 0)
        /\ ~ShouldShow => (last.off_bar = last.off_wheel /\ last.painted = 0)

\* C19 as amended: the scroll bar is handled and its two rectangles painted
\* exactly when its width is positive, also in a frame that should not show it
\* while the width that begin animated is still positive; with a width of 0
\* nothing is painted and the offset is the one after the wheel step.
C19_BarWhenWidthPositive ==
    Ended =>
        /\ last.painted = 2 <=> last.width > 0
        /\ last.painted = 0 <=> last.width <= 0
        /\ last.width <= 0 => (~last.bar_active /\ last.off_bar = last.off_wheel)
        /\ ~ShouldShow => last.width = last.begin_width

\* C19 witness: the content fits and always_show_scroll is off, the width from
\* begin is still 24: the scroll bar's clamp changes the offset and both
\* rectangles are painted.
C19_Witness ==
    /\ Ended
    /\ ~ShouldShow
    /\ last.loaded.show_scroll
    /\ last.width = 24
    /\ last.painted = 2
    /\ last.off_bar # last.off_wheel

\* C20 as claimed: after the clamp that follows the interaction with the scroll
\* bar, offset.y is in [0, max(0, content_height - inner_height)].
C20_BarClampInRange ==
    (Ended /\ last.painted = 2) =>
        /\ 0 <= last.off_bar
        /\ last.off_bar <= Max(0, last.content_height - last.inner_height)

\* C21 as claimed: when the content is not taller than the inner rectangle,
\* the drag, the kinetic scrolling and the wheel all leave offset.y and the
\* velocity as they were, and the stored offset.y is 0.
C21_SmallContentSkipsAll ==
    (Ended /\ last.content_height <= last.inner_height) =>
        /\ last.off_kinetic = last.off_target
        /\ last.off_wheel = last.off_target
        /\ Persisted.vel = last.loaded.vel
        /\ Persisted.offset.y = 0

\* C21 as amended: when the content is not taller than the inner rectangle, the
\* drag and the kinetic scrolling are skipped: the offset after them is the one
\* before them, the velocity stored is the velocity loaded, and they request no
\* repaint.  The wheel is not skipped: with the pointer over the region it
\* subtracts its delta from offset.y.  The stored offset.y is 0.
C21_SmallContentSkipsDrag ==
    (Ended /\ last.content_height <= last.inner_height) =>
        /\ ~last.active
        /\ last.off_kinetic = last.off_target
        /\ Persisted.vel = last.loaded.vel
        /\ last.repaint <=> (ShouldShow # last.loaded.show_scroll)
        /\ last.off_wheel =
              IF last.hovered THEN last.off_kinetic - last.wheel ELSE last.off_kinetic
        /\ Persisted.offset.y = 0

\* C21 witness: nothing in the region, a velocity left from an earlier drag,
\* the pointer over the region and a wheel delta of 50: the offset after the
\* wheel step is 50 less, the velocity is kept and 0 is stored.
C21_Witness ==
    /\ Ended
    /\ last.content_height = 0
    /\ last.loaded.vel = Vec2(0, 1000)
    /\ last.hovered
    /\ last.wheel = 50
    /\ last.off_wheel = last.off_target - 50
    /\ Persisted.vel = Vec2(0, 1000)
    /\ Persisted.offset.y = 0


\* C22: while the content is taller than the inner rectangle and is dragged,
\* Prepared::end subtracts the pointer's delta.y from offset.y and stores the
\* pointer's velocity as it is: no friction is taken from it, the offset is not
\* moved by it and the drag requests no repaint.  While the content is not
\* dragged the velocity stored comes from the velocity loaded and dt alone, zero
\* or the loaded one less the friction, whatever the pointer's velocity is.
C22_DragSetsOffsetAndVelocity ==
    (Ended /\ last.content_height > last.inner_height) =>
        /\ last.active =>
              /\ last.off_kinetic = last.off_target - last.delta
              /\ Persisted.vel = last.velocity
              /\ last.repaint <=> (ShouldShow # last.loaded.show_scroll)
        /\ ~last.active =>
              LET friction == (1000 * last.dt) \div DtPerSec
                  loaded == last.loaded.vel
                  speed == Length(loaded)
              IN  IF friction > speed \/ speed < 20
                  THEN Persisted.vel = Vec2Zero /\ last.off_kinetic = last.off_target
                  ELSE /\ Persisted.vel =
                             Vec2(loaded.x - (friction * loaded.x) \div speed,
                                  loaded.y - (friction * loaded.y) \div speed)
                       /\ last.repaint

\* C22 witness: a region at offset 300 with the velocity (0, 1000) is dragged by
\* 50 while the pointer moves at (600, -800): the offset after the drag is 250 and
\* the velocity stored is the pointer's.
C22_Witness ==
    /\ Ended
    /\ last.content_height = 500
    /\ last.active
    /\ last.loaded.vel = Vec2(0, 1000)
    /\ last.dt = 1
    /\ last.off_target = 300
    /\ last.delta = 50
    /\ last.velocity = Vec2(600, -800)
    /\ last.off_kinetic = 250
    /\ Persisted.vel = Vec2(600, -800)

\* C23 as claimed: whenever Prepared::end stores a velocity that is not zero, it
\* has requested a repaint.
C23_NeverIdlesUnsettled ==
    (Ended /\ Persisted.vel # Vec2Zero) => last.repaint

\* C23 as amended: whenever Prepared::end stores a velocity that is not zero for
\* content that is taller than the inner rectangle and not dragged, it has
\* requested a repaint; and when show_scroll has not flipped, only such an end,
\* one that took the friction step, requests a repaint: not one that is dragged
\* and not one whose content fits.
C23_RepaintWhileDecaying ==
    Ended =>
        /\ (last.content_height > last.inner_height /\ ~last.active
                /\ Persisted.vel # Vec2Zero) => last.repaint
        /\ (last.repaint /\ ShouldShow = last.loaded.show_scroll) =>
              (last.content_height > last.inner_height /\ ~last.active)

\* C23 witness: an undragged region with the velocity (0, 1000) after half a
\* second: (0, 500) is stored and a repaint requested, show_scroll being as before.
C23_Witness ==
    /\ Ended
    /\ last.content_height > last.inner_height
    /\ ~last.active
    /\ last.loaded.vel = Vec2(0, 1000)
    /\ last.loaded.show_scroll
    /\ Persisted.vel = Vec2(0, 500)
    /\ last.repaint

\* C24: while the scroll bar is active and the pointer has a position: with the
\* pointer inside the handle, offset.y grows by delta.y * content_height /
\* inner_height; with the pointer outside the handle, offset.y is set to the
\* inverse mapping, from [track top, track bottom] to [0, content_height], of
\* pointer y minus half the height of the handle; either result is then clamped
\* by max(0) and min(content_height - inner_height).  The handle is the one of the
\* offset before the interaction; where that offset and the new one are both in
\* the reachable range, the handle of the new offset is centred on the pointer.
C24_TrackInteraction ==
    (Ended /\ last.bar_active /\ last.pos # None) =>
        LET top == last.content_top + last.off_loaded
            bottom == top + last.inner_height
            content == last.content_height
            handle_top == RemapClamp(last.off_wheel, 0, content, top, bottom)
            handle_bottom ==
                RemapClamp(last.off_wheel + last.inner_height, 0, content, top, bottom)
            inside == /\ last.pos.in_bar_x
                      /\ handle_top <= last.pos.y
                      /\ last.pos.y <= handle_bottom
            moved == IF inside
                     THEN last.off_wheel + (last.delta * content) \div last.inner_height
                     ELSE ((last.pos.y - (handle_bottom - handle_top) \div 2 - top) * content)
                              \div (bottom - top)
        IN  /\ last.painted = 2
            /\ last.off_bar = Min(Max(moved, 0), content - last.inner_height)
            /\ (~inside /\ content > last.inner_height
                    /\ last.off_wheel >= 0 /\ last.off_wheel <= content - last.inner_height
                    /\ moved >= 0 /\ moved <= content - last.inner_height) =>
                  \* the handle, as high as before, has its middle at the pointer
                  RemapClamp(last.off_bar, 0, content, top, bottom)
                      + RemapClamp(last.off_bar + last.inner_height, 0, content, top, bottom)
                    = 2 * last.pos.y

\* C24 witness: content 500, inner 200, offset 0, so the handle is from 0 to 80;
\* a click at 160, outside the handle, sets the offset to 300: the handle is
\* then from 120 to 200, its middle at the pointer.
C24_Witness ==
    /\ Ended
    /\ last.bar_active
    /\ last.content_height = 500
    /\ last.inner_height = 200
    /\ last.off_wheel = 0
    /\ last.pos = [some |-> TRUE, y |-> 160, in_bar_x |-> TRUE]
    /\ last.off_bar = 300
    /\ Persisted.offset.y = 300

\* C25: the stored ScrollStates change only in the step that ends a show, and
\* only for the id of that show: begin, add_contents, a scroll target being set
\* and the frame driver leave scroll_areas as it is, and a Prepared::end for id A
\* leaves the entry of every other id as it was.  Every end writes the entry of
\* its id, and an id is begun, and so ended and written, once in a frame.
C25_OnlyEndWritesOwnId ==
    [][ /\ scroll_areas' # scroll_areas =>
              /\ stack # << >>
              /\ stack' = AllocateSpace(Tail(stack), Min(stack[1].inner_height,
                                                        stack[1].content_height))
              /\ DOMAIN scroll_areas' = DOMAIN scroll_areas \cup {stack[1].id}
              /\ \A i \in DOMAIN scroll_areas :
                    i # stack[1].id => scroll_areas'[i] = scroll_areas[i]
        /\ Len(stack') < Len(stack) =>
              /\ last'.id = stack[1].id
              /\ stack[1].id \in DOMAIN scroll_areas'
              /\ scroll_areas'[stack[1].id].show_scroll =
                    (stack[1].content_height > stack[1].inner_height
                        \/ stack[1].always_show_scroll)
        /\ Len(stack') > Len(stack) =>
              /\ Len(stack') = Len(stack) + 1
              /\ stack'[1].id \notin shown
              /\ stack'[1].id \in shown'
              /\ scroll_areas' = scroll_areas
      ]_vars

\* C25 witness: the region "b", nested in "a", has just ended and stored the
\* offset 300 while "a", not yet ended in this frame, still has the offset 100
\* stored by an earlier frame.
C25_Witness ==
    /\ Ended
    /\ last.id = "b"
    /\ Len(stack) = 1
    /\ stack[1].id = "a"
    /\ scroll_areas["b"].offset.y = 300
    /\ "a" \in DOMAIN scroll_areas
    /\ scroll_areas["a"].offset.y = 100

\* C26: Prepared::end never assigns offset.x: the offset.x it stores is the one
\* begin loaded, so for a region whose state started as the default every
\* stored offset.x, and the offset.x of every Prepared, is 0, also while the
\* region is dragged or scrolls kinetically with a horizontal velocity.
C26_OffsetXUntouched ==
    /\ \A id \in DOMAIN scroll_areas : scroll_areas[id].offset.x = 0
    /\ \A k \in 1 .. Len(stack) : stack[k].state.offset.x = 0
    /\ Ended => Persisted.offset.x = last.loaded.offset.x

\* C26 witness: a region that scrolls kinetically with the velocity (300, -400)
\* after a drag at (600, -800): its offset.y has moved and its offset.x is 0.
C26_Witness ==
    /\ Ended
    /\ ~last.active
    /\ last.loaded.vel = Vec2(600, -800)
    /\ Persisted.vel = Vec2(300, -400)
    /\ Persisted.offset.y > last.off_loaded
    /\ Persisted.offset.x = 0

(***************************************************************************)
(* Properties of the grid                                                  *)
(***************************************************************************)
\* A GridLayout::save has just run: glast holds what it read and did.
Saved == glast.id # "none"

\* The state stored for the grid that was saved
Stored == id_data[glast.id]

\* The largest element of a non-empty set of numbers
SetMax(S) == CHOOSE m \in S : \A x \in S : x <= m

\* The cells of the frame in column col, in row row
CellsOfCol(cells, col) == { k \in 1 .. Len(cells) : cells[k].col = col }

CellsOfRow(cells, row) == { k \in 1 .. Len(cells) : cells[k].row = row }

\* The widest cell of a column and the highest cell of a row, not below the minimum
ObservedColWidth(cells, col) ==
    SetMax({ Max(InteractSize.x, cells[k].size.x) : k \in CellsOfCol(cells, col) })

ObservedRowHeight(cells, row) ==
    SetMax({ Max(InteractSize.y, cells[k].size.y) : k \in CellsOfRow(cells, row) })

\* C3 as claimed: the width stored for a column after a frame is not below the
\* width stored for it after the frame before.
C3_WidthsNeverShrink ==
    Saved =>
        \A i \in 1 .. Min(Len(Stored.col_widths), Len(glast.before.col_widths)) :
            Stored.col_widths[i] >= glast.before.col_widths[i]

\* C3 as amended: the state stored after a frame is the state accumulated in that
\* frame alone: the width of a column is the width of the widest cell of that
\* column in this frame, so it is not below the width stored after the frame
\* before exactly when this frame's widest cell is not.
C3_WidthsOfThisFrameOnly ==
    Saved =>
        /\ Stored = glast.curr_state
        /\ \A i \in 1 .. Len(Stored.col_widths) :
              /\ CellsOfCol(glast.cells, i - 1) # {}
              /\ Stored.col_widths[i] = ObservedColWidth(glast.cells, i - 1)
              /\ i <= Len(glast.before.col_widths) =>
                    (Stored.col_widths[i] >= glast.before.col_widths[i]
                        <=> ObservedColWidth(glast.cells, i - 1)
                                >= glast.before.col_widths[i])

\* C3 witness: the column was 60 wide after the frame before and is 40 wide now.
C3_Witness ==
    /\ Saved
    /\ glast.before.col_widths = <<60>>
    /\ Stored.col_widths = <<40>>

\* C4: after a first frame (nothing stored before) and save, the stored width of
\* every column is the largest max(min_col_width, width) over the cells of that
\* column, and the stored height of every row that has cells is the largest
\* max(min_row_height, height) over the cells of that row.
C4_FirstFrameIsMax ==
    (Saved /\ glast.prev_state = DefaultGridState) =>
        /\ \A k \in 1 .. Len(glast.cells) :
              /\ glast.cells[k].col < Len(Stored.col_widths)
              /\ glast.cells[k].row < Len(Stored.row_heights)
        /\ \A c \in 0 .. Len(Stored.col_widths) - 1 :
              /\ CellsOfCol(glast.cells, c) # {}
              /\ Stored.col_widths[c + 1] = ObservedColWidth(glast.cells, c)
        /\ \A r \in 0 .. Len(Stored.row_heights) - 1 :
              CellsOfRow(glast.cells, r) # {} =>
                  Stored.row_heights[r + 1] = ObservedRowHeight(glast.cells, r)

\* C4 witness: widths 40, 60 in the first row and 50, 30 in the second give
\* the stored widths 50, 60.
C4_Witness ==
    /\ Saved
    /\ glast.prev_state = DefaultGridState
    /\ [k \in 1 .. Len(glast.cells) |-> glast.cells[k].size.x] = <<40, 60, 50, 30>>
    /\ [k \in 1 .. Len(glast.cells) |-> glast.cells[k].row] = <<0, 0, 1, 1>>
    /\ Stored.col_widths = <<50, 60>>
    /\ Stored.row_heights = <<30, 30>>

\* C5: save replaces the stored state by the state accumulated in this frame, as
\* a whole, and requests a repaint exactly when the accumulated state differs
\* from the previous frame's; when they are equal the store is as it was and no
\* repaint is requested.
C5_SaveReplacesWhenDifferent ==
    Saved =>
        /\ glast.prev_state = glast.before
        /\ glast.repaint <=> (glast.curr_state # glast.prev_state)
        /\ glast.curr_state # glast.prev_state => Stored = glast.curr_state
        /\ glast.curr_state = glast.prev_state => id_data = [id_data EXCEPT ![glast.id] = glast.before]

\* C5 witness: two columns and two rows were stored, this frame has one cell:
\* one column and one row are stored and a repaint is requested.
C5_Witness ==
    /\ Saved
    /\ glast.repaint
    /\ glast.before.col_widths = <<50, 60>>
    /\ Len(glast.before.row_heights) = 2
    /\ Stored.col_widths = <<40>>
    /\ Len(Stored.row_heights) = 1

\* C14: the striped colour is painted on even rows only and the header colour on
\* row 0 only; a row is painted in the striped colour only by a striped grid and
\* in the header colour only by a grid with a header row.
C14_StripedEvenHeaderZero ==
    \A k \in 1 .. Len(painter) :
        /\ painter[k].color = "striped" =>
              painter[k].fn = "paint_row" /\ painter[k].row % 2 = 0
        /\ painter[k].color = "header" =>
              painter[k].fn = "paint_row" /\ painter[k].row = 0

\* C14 witness: a striped grid with a header row whose previous frame had two
\* rows has ended its first row: row 0 is painted in both colours and the
\* paint pass for row 1 has painted nothing.
C14_Witness ==
    /\ grid # None
    /\ grid.row = 1
    /\ Len(grid.prev_state.row_heights) = 2
    /\ [k \in 1 .. Len(painter) |-> <<painter[k].color, painter[k].row>>]
          = << <<"striped", 0>>, <<"header", 0>> >>

\* C11: get_or_default on the by-instance store is idempotent: a second call with
\* the same key returns the value the first call returned and leaves the store as
\* the first call left it; on an absent key the first call inserts the default,
\* on a present key it changes nothing.  GridLayout::new is such a call in
\* every frame: its prev_state is the stored state.
C11_GetOrDefaultIdempotent ==
    /\ \A id \in GridIds :
          LET once == GetOrDefault(id_data, id)
              twice == GetOrDefault(once, id)
          IN  /\ twice = once
              /\ twice[id] = once[id]
              /\ id \notin DOMAIN id_data => once[id] = DefaultGridState
              /\ id \in DOMAIN id_data => once = id_data
    /\ grid # None =>
          /\ grid.id \in DOMAIN id_data
          /\ grid.prev_state = id_data[grid.id]

\* C11 witness: a frame after one that stored widths: GridLayout::new has called
\* get_or_default on the present key and the stored state is still there.
C11_Witness ==
    /\ grid # None
    /\ grid.cells = << >>
    /\ id_data[grid.id].col_widths = <<50, 60>>
    /\ grid.prev_state = id_data[grid.id]


\* C12: an entry of the serializable store whose bytes fail to deserialize is
\* read as if it were absent: get_or_default for its key returns the default and
\* stores it, nothing fails, and the entries of the other keys are as they were.
\* Bytes that do deserialize give the value they were written from.
C12_CorruptEntryIsDefault ==
    slast.op = "ser_get" =>
        /\ ~panicked
        /\ ser_store[slast.key] = ValueElement(slast.returned)
        /\ \A k \in DOMAIN ser_store \ {slast.key} :
              k \in DOMAIN slast.before /\ ser_store[k] = slast.before[k]
        /\ slast.key \notin DOMAIN slast.before => slast.returned = DefaultValue
        /\ slast.key \in DOMAIN slast.before =>
              LET was == slast.before[slast.key]
              IN  /\ was.form = "value" => slast.returned = was.value
                  /\ (was.form = "serialized" /\ was.bytes \in CorruptBytes) =>
                        slast.returned = DefaultValue
                  /\ (was.form = "serialized" /\ was.bytes \notin CorruptBytes) =>
                        was.bytes = Serialize(slast.returned)

\* C12 witness: the bytes of k1, which held 1, were damaged; k1 reads as the
\* default 0 and k2 still has its bytes, those of 1.
C12_Witness ==
    /\ slast.op = "ser_get"
    /\ slast.key = "k1"
    /\ slast.before = [k1 |-> SerializedElement(<<49, 48, 48>>),
                       k2 |-> SerializedElement(Serialize(1))]
    /\ slast.returned = 0
    /\ ser_store["k2"] = SerializedElement(Serialize(1))

\* C27: the width offered for a cell is the configured max cell width if that is
\* finite; otherwise the previous frame's width of the cell's column if the
\* previous frame had that column; otherwise the width this frame has recorded
\* for the column so far, if any; otherwise the minimum cell width.  The height
\* offered is the remaining height of the region, at least the minimum cell
\* height and at most the maximum cell height.
C27_CellSizePrediction ==
    grid # None =>
        \A k \in 1 .. Len(grid.cells) :
            LET cell == grid.cells[k]
                earlier == { j \in 1 .. k - 1 : grid.cells[j].col = cell.col }
                maxw == grid.max_cell_size.x
                maxh == grid.max_cell_size.y
                prev == grid.prev_state.col_widths
                floored == Max(cell.remaining, grid.min_cell_size.y)
            IN  /\ cell.offered.x =
                      IF maxw.finite THEN maxw.v
                      ELSE IF cell.col < Len(prev) THEN prev[cell.col + 1]
                      ELSE IF earlier # {}
                           THEN SetMax({ Max(grid.min_cell_size.x, grid.cells[j].size.x) :
                                           j \in earlier })
                      ELSE grid.min_cell_size.x
                /\ cell.offered.y =
                      IF maxh.finite THEN Min(floored, maxh.v) ELSE floored

\* C27 witness: the previous frame had one column, 60 wide.  In this frame the
\* cells of column 0 are offered 60 though 40 is recorded for it, the first cell
\* of column 1 is offered the minimum 40, and the second the 50 recorded by the
\* first; 16 remain below the second row and the minimum height 20 is offered.
C27_Witness ==
    /\ grid # None
    /\ grid.prev_state.col_widths = <<60>>
    /\ [k \in 1 .. Len(grid.cells) |-> grid.cells[k].size.x] = <<40, 50, 40, 30>>
    /\ [k \in 1 .. Len(grid.cells) |-> grid.cells[k].offered.x] = <<60, 40, 60, 50>>
    /\ grid.cells[4].remaining = 16
    /\ grid.cells[4].offered.y = 20

\* C28: within a frame the accumulated state never shrinks: over every advance
\* and every end_row, col_widths and row_heights are at least as long as before
\* and every entry they had is at least what it was.  An advance increments the
\* column index by one, keeps the row index and moves the cursor right by the
\* width of the cell's frame plus spacing.x; it records for the cell's column
\* and row at least max(minimum, measured).
C28_MonotoneWithinFrame ==
    [][ (grid # None /\ grid' # None) =>
          LET old == grid.curr_state
              new == grid'.curr_state
          IN  /\ Len(new.col_widths) >= Len(old.col_widths)
              /\ Len(new.row_heights) >= Len(old.row_heights)
              /\ \A i \in 1 .. Len(old.col_widths) : new.col_widths[i] >= old.col_widths[i]
              /\ \A i \in 1 .. Len(old.row_heights) :
                    new.row_heights[i] >= old.row_heights[i]
              /\ Len(grid'.cells) > Len(grid.cells) =>
                    LET cell == grid'.cells[Len(grid'.cells)]
                    IN  /\ grid'.col = grid.col + 1
                        /\ grid'.row = grid.row
                        /\ grid'.cursor.x = grid.cursor.x + cell.frame.x + grid.spacing.x
                        /\ grid'.cursor.y = grid.cursor.y
                        /\ new.col_widths[grid.col + 1]
                              >= Max(grid.min_cell_size.x, cell.size.x)
                        /\ new.row_heights[grid.row + 1]
                              >= Max(grid.min_cell_size.y, cell.size.y)
      ]_vars

\* C28 witness: the previous frame's column was 60 wide; a cell 60 wide and a
\* cell 40 wide below it: the width recorded for the column stays 60, and the
\* second advance has moved the cursor from 10 by the frame's 60 plus the
\* spacing 8.
C28_Witness ==
    /\ grid # None
    /\ grid.prev_state.col_widths = <<60>>
    /\ [k \in 1 .. Len(grid.cells) |-> grid.cells[k].size] = << Vec2(60, 30), Vec2(40, 10) >>
    /\ [k \in 1 .. Len(grid.cells) |-> grid.cells[k].row] = <<0, 1>>
    /\ grid.curr_state = [col_widths |-> <<60>>, row_heights |-> <<30, 20>>]
    /\ grid.col = 1
    /\ grid.row = 1
    /\ grid.cursor.x = 78

\* C29: end_row puts the cursor's x back to the anchor taken when the grid was
\* created, sets the column index to 0, increments the row index by one and
\* moves the cursor down by spacing.y plus the height the previous frame
\* recorded for the row that ends, or the minimum row height if the previous
\* frame had no such row; the heights measured in this frame play no part and
\* the accumulated state is left as it is.
C29_EndRow ==
    [][ (grid # None /\ grid' # None /\ grid'.row # grid.row) =>
          LET prev == grid.prev_state.row_heights
              height == IF grid.row < Len(prev) THEN prev[grid.row + 1]
                        ELSE grid.min_cell_size.y
          IN  /\ grid'.row = grid.row + 1
              /\ grid'.col = 0
              /\ grid'.cursor.x = grid.initial_x
              /\ grid'.cursor.y = grid.cursor.y + grid.spacing.y + height
              /\ grid'.curr_state = grid.curr_state
              /\ grid'.prev_state = grid.prev_state
      ]_vars

\* C29 witness: the previous frame's first row was 20 high, this frame's cell
\* in it is 30 high: after end_row the cursor is at the anchor's x, 10, and at
\* y 20 + 4.
C29_Witness ==
    /\ grid # None
    /\ grid.prev_state.row_heights = <<20>>
    /\ grid.curr_state.row_heights = <<30>>
    /\ Len(grid.cells) = 1
    /\ grid.row = 1
    /\ grid.col = 0
    /\ grid.cursor = Vec2(10, 24)

\* The place of a fill in its paint pass: rows, then columns, then cells
PaintRank(fill) ==
    CASE fill.by = "by_row" -> 1
      [] fill.by = "by_column" -> 2
      [] OTHER -> 3

\* C30: the fills of a frame's grid come pass by pass, in the order of the rows
\* the passes are for.  Within one pass every fill of a row predicate comes
\* before every fill of a column predicate, and these before every fill of a
\* cell predicate or of the list of overrides; the cells come column by column,
\* and for one cell the override comes after the colours of its cell predicates.
\* Column predicates are painted in the pass for row 0 only, so in one pass of a
\* frame, and each of them once per column of the previous frame at most.
C30_PaintOrder ==
    /\ \A i, j \in 1 .. Len(painter) :
          i < j =>
              /\ painter[i].row <= painter[j].row
              /\ painter[i].row = painter[j].row =>
                    /\ PaintRank(painter[i]) <= PaintRank(painter[j])
                    /\ (PaintRank(painter[i]) = 3 /\ PaintRank(painter[j]) = 3) =>
                          /\ painter[i].col <= painter[j].col
                          /\ painter[i].col = painter[j].col => painter[j].by # "by_cell"
                                                                   \/ painter[i].by = "by_cell"
              /\ (painter[i].by = "by_column" /\ painter[j].by = "by_column") =>
                    painter[i] # painter[j]
    /\ \A k \in 1 .. Len(painter) :
          painter[k].by = "by_column" =>
              /\ painter[k].fn = "paint_column"
              /\ painter[k].row = 0

\* C30 witness: a grid with one colour of each kind whose previous frame had two
\* rows and two columns has ended its first row: the pass for row 0 painted the
\* row, the two columns, the cell (0, 0) and its override, and the pass for row 1
\* the row, the cell (1, 1) and its override, and no column.
C30_Witness ==
    /\ grid # None
    /\ grid.row = 1
    /\ [k \in 1 .. Len(painter) |-> <<painter[k].by, painter[k].row, painter[k].col>>]
          = << <<"by_row", 0, -1>>, <<"by_column", 0, 0>>, <<"by_column", 0, 1>>,
               <<"by_cell", 0, 0>>, <<"list", 0, 0>>,
               <<"by_row", 1, -1>>, <<"by_cell", 1, 1>>, <<"list", 1, 1>> >>

\* C31: a frame in which the same cells are filled with the same sizes as in the
\* frame before finds the accumulated state equal to the previous state at
\* save: nothing is written and no repaint requested.  The state stored after
\* a frame is a fixed point of the frames that repeat it, also when that frame
\* itself had changed the state and requested a repaint.
C31_SameCellsNoRepaint ==
    (Saved /\ glast.filled_before # None
           /\ glast.filled_before.v.cells = Measured(glast.cells)) =>
        /\ glast.curr_state = glast.prev_state
        /\ ~glast.repaint
        /\ Stored = glast.before
        /\ Stored = glast.curr_state

\* C31 witness: the frame before had changed the stored state and requested a
\* repaint; this frame has the same two rows of two cells and requests none.
C31_Witness ==
    /\ Saved
    /\ glast.filled_before # None
    /\ glast.filled_before.v.repaint
    /\ glast.filled_before.v.cells = Measured(glast.cells)
    /\ [k \in 1 .. Len(glast.cells) |-> glast.cells[k].size.x] = <<40, 60, 60, 40>>
    /\ [k \in 1 .. Len(glast.cells) |-> glast.cells[k].row] = <<0, 0, 1, 1>>
    /\ Stored.col_widths = <<60, 60>>
    /\ ~glast.repaint

\* What a GridLayout keeps from its creation to its save: everything but the
\* accumulated state, the cursor, the column and row index and the log of cells
Fixed(g) ==
    [ id |-> g.id, prev_state |-> g.prev_state, spacing |-> g.spacing,
      color_spec |-> g.color_spec, initial_x |-> g.initial_x,
      min_cell_size |-> g.min_cell_size, max_cell_size |-> g.max_cell_size ]

\* C32: from the creation of a GridLayout to its save, the steps of the frame
\* (the sizing query and advance of a cell, end_row and its paint pass) leave
\* the previous frame's state in the layout and the stored states as they are;
\* only the accumulated state, the cursor and the column and row index change.
\* A stored state is changed by save alone, which replaces the entry of its own
\* grid by the accumulated state; creating the layout at most adds the default
\* entry for an id that had none.  A grid is created, and so saved, once in a frame.
C32_OnlySaveWritesStore ==
    [][ /\ (grid # None /\ grid' # None) =>
              /\ id_data' = id_data
              /\ Fixed(grid') = Fixed(grid)
              /\ id_data[grid.id] = grid.prev_state
        /\ id_data' # id_data =>
              \/ /\ grid # None
                 /\ grid' = None
                 /\ DOMAIN id_data' = DOMAIN id_data
                 /\ id_data'[grid.id] = grid.curr_state
                 /\ \A i \in DOMAIN id_data : i # grid.id => id_data'[i] = id_data[i]
              \/ /\ grid = None
                 /\ grid' # None
                 /\ grid'.id \notin DOMAIN id_data
                 /\ DOMAIN id_data' = DOMAIN id_data \cup {grid'.id}
                 /\ id_data'[grid'.id] = [col_widths |-> << >>, row_heights |-> << >>]
                 /\ \A i \in DOMAIN id_data : id_data'[i] = id_data[i]
        /\ (grid = None /\ grid' # None) =>
              /\ grid'.id \notin shown
              /\ grid'.id \in shown'
      ]_vars

\* C32 witness: a layout whose previous frame stored the widths 50, 60 has
\* advanced over a cell 40 wide, ended the row with a paint pass and advanced
\* again: the stored state and the previous state are still 50, 60.
C32_Witness ==
    /\ grid # None
    /\ grid.row = 1
    /\ Len(grid.cells) = 2
    /\ painter # << >>
    /\ grid.curr_state.col_widths = <<40>>
    /\ grid.prev_state.col_widths = <<50, 60>>
    /\ id_data[grid.id] = grid.prev_state

\* C33 as claimed: every width of a saved state is at least the minimum column
\* width and every height at least the minimum row height, also after rows
\* that were ended without a cell.
C33_SavedRespectsMinimum ==
    Saved =>
        /\ \A i \in 1 .. Len(Stored.col_widths) : Stored.col_widths[i] >= InteractSize.x
        /\ \A j \in 1 .. Len(Stored.row_heights) : Stored.row_heights[j] >= InteractSize.y

\* C34 as claimed: while a grid is laid out, every fill of its paint passes is
\* for a row that has a height in the previous frame's state and, where it is
\* for a column, for a column that has a width there; a grid without a
\* previous state paints nothing.
C34_PaintsOnlyKnownGeometry ==
    grid # None =>
        \A k \in 1 .. Len(painter) :
            /\ painter[k].row < dimensions(grid.prev_state).x
            /\ painter[k].col < dimensions(grid.prev_state).y

\* C34: a row fill is for a row that has a height in the previous frame's
\* state, and a column, cell or override fill is for a column that has a width
\* there, so a grid without a previous state paints nothing.  The row of a
\* cell or override fill is the row the pass is for, whether or not the
\* previous frame had that row.
C34_PaintsKnownRowsAndColumns ==
    grid # None =>
        /\ \A k \in 1 .. Len(painter) :
              /\ painter[k].fn = "paint_row" =>
                    painter[k].row < dimensions(grid.prev_state).x
              /\ painter[k].fn # "paint_row" =>
                    /\ painter[k].col >= 0
                    /\ painter[k].col < dimensions(grid.prev_state).y
        /\ grid.prev_state = DefaultGridState => painter = << >>

\* C34 witness: the previous frame had one row of two columns; the grid with a
\* colour of each kind has ended row 0, and the pass for row 1 painted the cell
\* (1, 1) and its override but no row.
C34_Witness ==
    /\ grid # None
    /\ grid.row = 1
    /\ dimensions(grid.prev_state).x = 1
    /\ dimensions(grid.prev_state).y = 2
    /\ \E k \in 1 .. Len(painter) :
          painter[k].row = 1 /\ painter[k].col = 1 /\ painter[k].by = "by_cell"
    /\ \E k \in 1 .. Len(painter) :
          painter[k].row = 1 /\ painter[k].col = 1 /\ painter[k].by = "list"
    /\ \A k \in 1 .. Len(painter) : painter[k].fn = "paint_row" => painter[k].row = 0
    /\ \E k \in 1 .. Len(painter) : painter[k].fn = "paint_row"

(***************************************************************************)
(* Properties of the by-type store                                         *)
(***************************************************************************)
\* The types that have a value in the store
Accessed == { t \in Types : expect[t] # -1 }

\* C10: two distinct types whose hashes differ have different slots: each slot
\* holds its own type's value as last written through a reference to that type,
\* so a write to one of them leaves the other's value as it was, and an access
\* panics only if a type with the same hash holds the slot.
C10_NoAlias ==
    /\ \A t1, t2 \in Types :
          (t1 # t2 /\ hasher[t1] # hasher[t2] /\ t1 \in Accessed /\ t2 \in Accessed) =>
              /\ by_type[TypeIdOf(t1)] = Element(t1, expect[t1])
              /\ by_type[TypeIdOf(t2)] = Element(t2, expect[t2])
    /\ panicked =>
          \E t \in Accessed : t # slast.type /\ hasher[t] = hasher[slast.type]

\* C10 witness: T1 has just been written while T2 holds another value.
C10_Witness ==
    /\ slast = [op |-> "write", type |-> "T1"]
    /\ ~panicked
    /\ hasher["T1"] # hasher["T2"]
    /\ "T2" \in Accessed
    /\ by_type[TypeIdOf("T1")] = Element("T1", 0)
    /\ by_type[TypeIdOf("T2")] = Element("T2", 1)
    /\ expect["T2"] = 1

====
